---------------------------- MODULE Spec2Model ----------------------------
(***************************************************************************)
(* Model of fdog.addTaxon (single-taxon pipeline) and fdog.addTaxa (batch  *)
(* orchestrator): identity resolution, FASTA normalisation and the state   *)
(* of the on-disk genome / blast / weight stores.                          *)
(*                                                                         *)
(* Text is modelled as sequences of one-character strings, so that the     *)
(* regular expressions, slices and case conversions of the code are        *)
(* computed character by character.                                        *)
(***************************************************************************)
EXTENDS Naturals, Sequences, FiniteSets, TLC

VARIABLES
    genome,   \* genome_dir: taxon directory name |-> [hasFa, fa, checked]
    blast,    \* blast_dir:  taxon directory name |-> [phr, link]
    weight,   \* weight_dir: set of taxon directory names present
    proc,     \* the running program (addTaxa or addTaxon) and its locals
    nrec,     \* one FASTA record going through the write loop of addTaxon
    tname     \* one taxonomy lookup going through getTaxName

vars == <<genome, blast, weight, proc, nrec, tname>>

(***************************************************************************)
(* Bounds of the model.                                                    *)
(***************************************************************************)
MaxHeaderLen == 3
MaxSeqLen == 3
MaxNameLen == 6

(***************************************************************************)
(* Characters.                                                             *)
(***************************************************************************)
LowerSeq == <<"a","b","c","d","e","f","g","h","i","j","k","l","m",
              "n","o","p","q","r","s","t","u","v","w","x","y","z">>
UpperSeq == <<"A","B","C","D","E","F","G","H","I","J","K","L","M",
              "N","O","P","Q","R","S","T","U","V","W","X","Y","Z">>
AsciiLower == {LowerSeq[i] : i \in 1..Len(LowerSeq)}
AsciiUpper == {UpperSeq[i] : i \in 1..Len(UpperSeq)}
AsciiLetters == AsciiLower \cup AsciiUpper
\* a letter outside ASCII (e-acute): str.isalpha() accepts it, [a-zA-Z] does not
NonAsciiLetter == "U+00E9"
Digits19 == {"1","2","3","4","5","6","7","8","9"}
Whitespace == {" ", "\t"}

\* str.isalpha() on one character
IsAlpha(c) == c \in AsciiLetters \cup {NonAsciiLetter}

\* the character class [a-zA-Z]
InAZ(c) == c \in AsciiLetters

\* str.upper() on one character of the ASCII range
UpperChar(c) ==
    IF c \in AsciiLower
    THEN UpperSeq[CHOOSE i \in 1..Len(LowerSeq) : LowerSeq[i] = c]
    ELSE c

\* str.upper()
Upper(s) == [i \in 1..Len(s) |-> UpperChar(s[i])]

\* s[:n]
Take(s, n) == SubSeq(s, 1, IF n < Len(s) THEN n ELSE Len(s))

\* re.sub('[^a-zA-Z]', rep, s): every character outside [a-zA-Z] is
\* replaced by the string rep
RECURSIVE SubNonAZ(_, _)
SubNonAZ(s, rep) ==
    IF s = <<>> THEN <<>>
    ELSE (IF InAZ(Head(s)) THEN <<Head(s)>> ELSE rep) \o SubNonAZ(Tail(s), rep)

\* str.split(): the maximal runs of non-whitespace characters, in order
RECURSIVE SplitFrom(_, _, _)
SplitFrom(s, i, cur) ==
    IF i > Len(s)
    THEN (IF cur = <<>> THEN <<>> ELSE <<cur>>)
    ELSE IF s[i] \in Whitespace
         THEN (IF cur = <<>> THEN <<>> ELSE <<cur>>) \o SplitFrom(s, i + 1, <<>>)
         ELSE SplitFrom(s, i + 1, Append(cur, s[i]))

Split(s) == SplitFrom(s, 1, <<>>)

\* pat in s, for a two-character pattern
HasPair(s, c1, c2) == \E i \in 1..(Len(s) - 1) : s[i] = c1 /\ s[i + 1] = c2

\* all strings over alphabet A of length at most n
StringsUpTo(A, n) == UNION {[1..k -> A] : k \in 0..n}


(***************************************************************************)
(* Identity resolver: getTaxName (the same code in addTaxon and addTaxa).  *)
(***************************************************************************)
\* the lookup of ncbi.get_taxid_translator found no entry for the taxonomy id
NotFound == <<"?">>

\* characters kept by re.sub('[^a-zA-Z1-9\\s]+', '', ncbiName)
KeptInName(c) == c \in AsciiLetters \cup Digits19 \cup Whitespace

CleanName(ncbiName) == SelectSeq(ncbiName, KeptInName)

\* "UNK" + taxId
UnkName(taxId) == <<"U", "N", "K">> \o taxId

\* Acronym with the two upper() calls forgotten
AcronymAsWritten(taxName) == Take(taxName[1], 3) \o Take(taxName[2], 2)

\* taxName[0][:3].upper() + taxName[1][:2].upper()
Acronym(taxName) == Upper(Take(taxName[1], 3)) \o Upper(Take(taxName[2], 2))

\* getTaxName(taxId), the taxonomy database answering ncbiName (or NotFound):
\* a failed lookup and a name of fewer than two words both raise inside the
\* try block and give "UNK" + taxId
getTaxName(taxId, ncbiName) ==
    IF ncbiName = NotFound THEN UnkName(taxId)
    ELSE LET taxName == Split(CleanName(ncbiName))
         IN  IF Len(taxName) < 2 THEN UnkName(taxId) ELSE Acronym(taxName)

(***************************************************************************)
(* Sequence normaliser: the body of the write loop of addTaxon.main.       *)
(***************************************************************************)
\* record.id of Bio.SeqIO: the first whitespace-delimited word of the title
\* line, the empty string for a title without a word
FirstWord(title) == IF Split(title) = <<>> THEN <<>> ELSE Split(title)[1]

\* if '\\|' in id: id = re.sub('\\|', '_', id)
\* the test looks for the two characters backslash, pipe; the regular
\* expression \| matches every pipe
RewritePipes(id) ==
    IF HasPair(id, "\\", "|")
    THEN [i \in 1..Len(id) |-> IF id[i] = "|" THEN "_" ELSE id[i]]
    ELSE id

\* StripStop with the test for the stop marker forgotten
StripStopKept(seq) == seq

\* if seq[-1] == '*': seq = seq[:-1]      (seq not empty)
StripStop(seq) == IF seq[Len(seq)] = "*" THEN SubSeq(seq, 1, Len(seq) - 1) ELSE seq

\* any(c for c in seq if not c.isalpha())
HasSpecial(seq) == \E i \in 1..Len(seq) : ~IsAlpha(seq[i])

\* if replace: re.sub('[^a-zA-Z]', 'X', seq); if delete: re.sub(..., '', seq)
Sanitize(seq, replace, delete) ==
    LET r == IF replace THEN SubNonAZ(seq, <<"X">>) ELSE seq
    IN  IF delete THEN SubNonAZ(r, <<>>) ELSE r

\* one pass of the loop body for the record (id, seq):
\*   st = "ok"      the block >id\nseq\n is written
\*   st = "space"   sys.exit: the id contains a space
\*   st = "index"   seq[-1] raises IndexError on an empty sequence
\*   st = "special" sys.exit: special character and neither --replace nor --delete
NormRecord(id, seq, replace, delete) ==
    IF \E i \in 1..Len(id) : id[i] = " "
    THEN [st |-> "space", id |-> id, seq |-> seq]
    ELSE LET id2 == RewritePipes(id)
         IN  IF seq = <<>>
             THEN [st |-> "index", id |-> id2, seq |-> seq]
             ELSE LET s1 == StripStop(seq)
                  IN  IF HasSpecial(s1)
                      THEN IF replace \/ delete
                           THEN [st |-> "ok", id |-> id2,
                                 seq |-> Sanitize(s1, replace, delete)]
                           ELSE [st |-> "special", id |-> id2, seq |-> s1]
                      ELSE [st |-> "ok", id |-> id2, seq |-> s1]

\* the loop "for id in inSeq" with its writes: out is what f.write has put
\* into the FASTA file when the loop ends (st = "ok") or when a record stops
\* the program (st as in NormRecord)
RECURSIVE WriteLoop(_, _, _, _)
WriteLoop(inSeq, replace, delete, out) ==
    IF inSeq = <<>> THEN [st |-> "ok", out |-> out]
    ELSE LET r == NormRecord(Head(inSeq).id, Head(inSeq).seq, replace, delete)
         IN  IF r.st = "ok"
             THEN WriteLoop(Tail(inSeq), replace, delete,
                            Append(out, [id |-> r.id, seq |-> r.seq]))
             ELSE [st |-> r.st, out |-> out]

\* SeqIO.to_dict raises ValueError when two records have the same id
DuplicateKey(fasta) ==
    \E i, j \in 1..Len(fasta) : i < j /\ fasta[i].id = fasta[j].id

(***************************************************************************)
(* The record store.                                                       *)
(***************************************************************************)
\* name + '@' + taxId + '@' + ver, kept as the triple of its parts
SpecNameOf(name, taxId, ver) == <<name, taxId, ver>>

\* datetime.today().strftime('%y%m%d')
Today == "261102"

\* a taxon directory just made by mkdir: no FASTA file, no .checked file
NewDir == [hasFa |-> FALSE, fa |-> <<>>, checked |-> FALSE]

\* shutil.rmtree of one directory of a store kept as a function
RmTree(store, key) == [k \in DOMAIN store \ {key} |-> store[k]]

\* Path(...).mkdir(parents=True, exist_ok=True)
MkDir(store, key, new) ==
    IF key \in DOMAIN store THEN store
    ELSE [k \in DOMAIN store \cup {key} |-> IF k = key THEN new ELSE store[k]]

\* FaNonEmpty with the size test inverted
FaNonEmptyInverted(dir) == dir.hasFa /\ dir.fa = <<>>

\* os.path.exists(specFile) and os.stat(specFile).st_size > 0
FaNonEmpty(dir) == dir.hasFa /\ dir.fa # <<>>

\* the taxonomy database the runs see: taxonomy id |-> scientific name
NcbiName(taxId) == IF taxId = <<"7">> THEN <<"A", "b", " ", "c", "d">> ELSE NotFound

(***************************************************************************)
(* addTaxon.main: the single-taxon pipeline.  a holds the parsed command   *)
(* line; G, B, W are the genome, blast and weight stores it starts from;   *)
(* mk is what makeblastdb does when it is called; fl tells whether the     *)
(* records written to the FASTA file reach the disk when the program is   *)
(* stopped inside the loop, the file never closed.                        *)
(* Each stage returns the stores it leaves, the messages and file          *)
(* operations in their order (log), how the program ended (st) and what    *)
(* became of the FASTA file (mat).                                         *)
(***************************************************************************)
End(G, B, W, log, st, mat) ==
    [genome |-> G, blast |-> B, weight |-> W, log |-> log, st |-> st, mat |-> mat]

\* "create annotation": fas.doAnno is called unless --noAnno; it writes its
\* JSON file into weight_dir (no directory of the taxon's name) and its
\* exit status is not read.  Then the closing message.
AnnoStage(a, spec, G, B, W, log, mat) ==
    IF ~a.noAnno
    THEN End(G, B, W, log \o <<"call:doAnno", "print:output">>, "done", mat)
    ELSE End(G, B, W, Append(log, "print:output"), "done", mat)

\* RunBlast without the symbolic link
RunBlastNoLink(spec, G, B, mk) ==
    [blast |-> IF mk \in {"ok", "faildir"}
               THEN [k \in DOMAIN B \cup {spec} |->
                       IF k = spec
                       THEN [phr |-> (mk = "ok") \/ (spec \in DOMAIN B /\ B[spec].phr),
                             link |-> IF spec \in DOMAIN B THEN B[spec].link ELSE FALSE]
                       ELSE B[k]]
               ELSE B,
     log |-> <<"call:makeblastdb">>, raised |-> FALSE]

\* runBlast: makeblastdb, then the symbolic link in blast_dir/<spec>/ unless
\* Path(fileInBlast).exists(); os.symlink raises when the directory is
\* missing or when a link that does not resolve is in the way.  The exit
\* status of makeblastdb is not read: mk = "ok" leaves the directory with
\* the .phr file, "faildir" the directory without it, "fail" nothing.
RunBlast(spec, G, B, mk) ==
    LET B1 == IF mk \in {"ok", "faildir"}
              THEN [k \in DOMAIN B \cup {spec} |->
                      IF k = spec
                      THEN [phr |-> (mk = "ok") \/ (spec \in DOMAIN B /\ B[spec].phr),
                            link |-> IF spec \in DOMAIN B THEN B[spec].link ELSE FALSE]
                      ELSE B[k]]
              ELSE B
        pathExists == spec \in DOMAIN B1 /\ B1[spec].link
                      /\ spec \in DOMAIN G /\ G[spec].hasFa
    IN  IF pathExists
        THEN [blast |-> B1, log |-> <<"call:makeblastdb">>, raised |-> FALSE]
        ELSE IF spec \notin DOMAIN B1 \/ B1[spec].link
             THEN [blast |-> B1, log |-> <<"call:makeblastdb">>, raised |-> TRUE]
             ELSE [blast |-> [B1 EXCEPT ![spec].link = TRUE],
                   log |-> <<"call:makeblastdb", "symlink">>, raised |-> FALSE]

\* "create blast db": only with --coreTaxa; skipped when the .phr file is
\* there and --force is not given; an exception of runBlast is printed
BlastStage(a, spec, G, B, W, log, mat, mk) ==
    IF a.core
    THEN IF spec \notin DOMAIN B \/ ~B[spec].phr \/ a.force
         THEN LET r == RunBlast(spec, G, B, mk)
              IN  AnnoStage(a, spec, G, r.blast, W,
                            log \o r.log \o
                            (IF r.raised THEN <<"print:blast_problem">> ELSE <<>>),
                            mat)
         ELSE AnnoStage(a, spec, G, B, W, Append(log, "print:blast_exists"), mat)
    ELSE AnnoStage(a, spec, G, B, W, log, mat)

\* "create file in genome_dir": mkdir, SeqIO.to_dict, then the FASTA file is
\* opened for writing (and so emptied) and written record by record unless
\* it is there, not empty and --force is not given; .checked is written
\* after the loop.  A record that stops the program leaves the file with
\* the records written before it when the buffer of the unclosed file is
\* written out as the interpreter ends (fl), and empty when it is not.
GenomeStage(a, spec, G, B, W, log, mk, fl) ==
    LET G1 == MkDir(G, spec, NewDir)
        log1 == IF spec \in DOMAIN G THEN log ELSE Append(log, "mkdir:genome")
    IN  IF DuplicateKey(a.fasta)
        THEN End(G1, B, W, Append(log1, "raise:to_dict"), "dupid", "none")
        ELSE IF ~FaNonEmpty(G1[spec]) \/ a.force
             THEN LET w == WriteLoop(a.fasta, a.replace, a.delete, <<>>)
                  IN  IF w.st = "ok"
                      THEN BlastStage(a, spec,
                               [G1 EXCEPT ![spec] =
                                   [hasFa |-> TRUE, fa |-> w.out, checked |-> TRUE]],
                               B, W, log1 \o <<"write:fa", "write:checked">>,
                               "written", mk)
                      ELSE End([G1 EXCEPT ![spec].hasFa = TRUE,
                                          ![spec].fa = IF fl THEN w.out ELSE <<>>],
                               B, W, log1 \o <<"write:fa", "exit:" \o w.st>>,
                               w.st, "partial")
             ELSE BlastStage(a, spec, G1, B, W, Append(log1, "print:exists"),
                             "exists", mk)

\* "remove old folder if force is set"
ForceStage(a, spec, G, B, W, log, mk, fl) ==
    IF a.force
    THEN GenomeStage(a, spec, RmTree(G, spec), RmTree(B, spec), W,
                     log \o (IF spec \in DOMAIN G THEN <<"rmtree:genome">> ELSE <<>>)
                         \o (IF spec \in DOMAIN B THEN <<"rmtree:blast">> ELSE <<>>),
                     mk, fl)
    ELSE GenomeStage(a, spec, G, B, W, log, mk, fl)

\* checkOptConflict(replace, delete)
checkOptConflict(replace, delete) == replace /\ delete

\* the taxon directory name main builds from its arguments
TaxonSpecName(a) ==
    LET name == Upper(a.name)
        ver == IF a.ver = "" THEN Today ELSE a.ver
    IN  SpecNameOf(IF name = <<>> THEN getTaxName(a.taxid, NcbiName(a.taxid)) ELSE name,
                   a.taxid, ver)

AddTaxonMain(a, G, B, W, mk, fl) ==
    IF checkOptConflict(a.replace, a.delete)
    THEN End(G, B, W, <<"exit:conflict">>, "conflict", "none")
    ELSE ForceStage(a, TaxonSpecName(a), G, B, W, <<"print:species">>, mk, fl)

(***************************************************************************)
(* addTaxa: the batch orchestrator.  A line of the mapping file is its     *)
(* tab-separated columns (file name, taxonomy id, optional name, optional  *)
(* version, each without surrounding blanks) and whether it holds a '#'.   *)
(***************************************************************************)
\* parseMapFile: lines with '#' are skipped; a missing third column is
\* filled by getTaxName, a missing fourth by today's date; a later line of
\* the same file name replaces an earlier one
RECURSIVE parseMapFile(_, _)
parseMapFile(lines, nameDict) ==
    IF lines = <<>> THEN nameDict
    ELSE LET tmp == Head(lines).cols
             taxId == tmp[2]
             taxName == IF Len(tmp) >= 3 THEN tmp[3]
                        ELSE getTaxName(taxId, NcbiName(taxId))
             ver == IF Len(tmp) >= 4 THEN tmp[4] ELSE Today
         IN  IF Head(lines).hash
             THEN parseMapFile(Tail(lines), nameDict)
             ELSE parseMapFile(Tail(lines),
                      [f \in DOMAIN nameDict \cup {tmp[1]} |->
                          IF f = tmp[1] THEN <<taxName, taxId, ver>> ELSE nameDict[f]])

\* IsDuplicate looking only at the taxon's name, not at the whole
\* name@id@version
IsDuplicateByName(taxName, genomeFiles) ==
    \E g \in genomeFiles : g[1] = taxName[1] /\ g # taxName

\* "if taxName in genomeFiles": the taxon name is looked up in the listing
\* of genome_dir made when the program started
IsDuplicate(taxName, genomeFiles) == taxName \in genomeFiles

\* the loop "for f in faFiles" of main.  s carries the stores, the jobs and
\* dupList built so far, the log, and whether shutil.rmtree has raised
\* (it raises FileNotFoundError when the directory is not there, and main
\* does not catch it).  genomeFiles is the listing made before the loop.
RECURSIVE ScanFiles(_, _, _, _, _)
ScanFiles(faFiles, nameDict, genomeFiles, a, s) ==
    IF faFiles = <<>> \/ s.raised THEN s
    ELSE LET f == Head(faFiles)
             rest == Tail(faFiles)
         IN  IF f \notin DOMAIN nameDict
             THEN ScanFiles(rest, nameDict, genomeFiles, a, s)
             ELSE LET taxName == SpecNameOf(nameDict[f][1], nameDict[f][2], nameDict[f][3])
                      job == [f |-> f, n |-> nameDict[f][1], i |-> nameDict[f][2],
                              v |-> nameDict[f][3]]
                  IN  IF ~IsDuplicate(taxName, genomeFiles)
                      THEN ScanFiles(rest, nameDict, genomeFiles, a,
                                     [s EXCEPT !.jobs = Append(@, job)])
                      ELSE IF ~a.force
                      THEN ScanFiles(rest, nameDict, genomeFiles, a,
                                     [s EXCEPT !.dupList = Append(@, <<f, taxName>>)])
                      ELSE IF taxName \notin DOMAIN s.genome
                      THEN [s EXCEPT !.raised = TRUE,
                                     !.log = Append(@, "raise:rmtree_genome")]
                      ELSE IF a.noAnno
                      THEN ScanFiles(rest, nameDict, genomeFiles, a,
                               [s EXCEPT !.genome = RmTree(@, taxName),
                                         !.log = Append(@, "rmtree:genome"),
                                         !.dupList = Append(@, <<f, taxName>>),
                                         !.jobs = Append(@, job)])
                      ELSE IF taxName \notin s.weight
                      THEN [s EXCEPT !.genome = RmTree(@, taxName),
                                     !.raised = TRUE,
                                     !.log = @ \o <<"rmtree:genome", "raise:rmtree_weight">>]
                      ELSE ScanFiles(rest, nameDict, genomeFiles, a,
                               [s EXCEPT !.genome = RmTree(@, taxName),
                                         !.weight = @ \ {taxName},
                                         !.log = @ \o <<"rmtree:genome", "rmtree:weight">>,
                                         !.dupList = Append(@, <<f, taxName>>),
                                         !.jobs = Append(@, job)])

\* ReportDuplicates with the sys.exit of the branch without --force left out
ReportDuplicatesNoExit(s, force) ==
    IF s.raised THEN [pc |-> "crashed", log |-> s.log]
    ELSE IF s.dupList = <<>> THEN [pc |-> "jobs", log |-> s.log]
    ELSE [pc |-> "jobs", log |-> s.log \o <<"print:dupList", "print:will_delete">>]

\* "if len(dupList) > 0": the duplicates are printed, and without --force
\* the program stops; an exception of the loop has ended it before
ReportDuplicates(s, force) ==
    IF s.raised THEN [pc |-> "crashed", log |-> s.log]
    ELSE IF s.dupList = <<>> THEN [pc |-> "jobs", log |-> s.log]
    ELSE IF force
    THEN [pc |-> "jobs", log |-> s.log \o <<"print:dupList", "print:will_delete">>]
    ELSE [pc |-> "aborted", log |-> s.log \o <<"print:dupList", "exit:dupList">>]

(***************************************************************************)
(* The inputs the runs are given.                                          *)
(***************************************************************************)
Rec(id, seq) == [id |-> id, seq |-> seq]

\* parsed FASTA files (SeqIO.parse): no record; one clean record; a clean
\* record followed by one with a digit; the same two in the other order;
\* two records of the same id
FaEmpty == <<>>
FaGood == <<Rec(<<"a">>, <<"M", "K">>)>>
FaBadLast == <<Rec(<<"a">>, <<"M", "K">>), Rec(<<"b">>, <<"M", "1">>)>>
FaBadFirst == <<Rec(<<"b">>, <<"M", "1">>), Rec(<<"a">>, <<"M", "K">>)>>
FaDup == <<Rec(<<"a">>, <<"M", "K">>), Rec(<<"a">>, <<"M", "V">>)>>

\* two records of different ids, the first with backslash and pipe
FaPipe == <<Rec(<<"x", "\\", "|">>, <<"M", "K">>), Rec(<<"x", "\\", "_">>, <<"M", "V">>)>>

TaxonFiles == {FaEmpty, FaGood, FaBadLast, FaBadFirst, FaDup, FaPipe}

TaxId7 == <<"7">>
NameXY == <<"X", "Y">>
NameABCD == <<"A", "B", "C", "D">>
NameLower == <<"x", "y">>

\* command lines of fdog.addTaxon
TaxonArgs ==
    [fasta : TaxonFiles, name : {<<"a", "b", "c", "d">>, <<>>}, taxid : {TaxId7}, ver : {"1"},
     core : BOOLEAN, noAnno : BOOLEAN, replace : BOOLEAN, delete : BOOLEAN,
     force : BOOLEAN]

\* lines of a mapping file
Line(f, name) == [cols |-> <<f, TaxId7, name, "1">>, hash |-> FALSE]
Comment(f, name) == [cols |-> <<f, TaxId7, name, "1">>, hash |-> TRUE]

Mappings ==
    { <<Line("f1", NameXY), Line("f2", NameXY)>>,
      <<Line("f1", NameXY), Line("f2", NameABCD)>>,
      <<Line("f1", NameXY), Line("f3", NameABCD)>>,
      <<Line("f1", NameLower), Comment("f2", NameXY)>> }

\* input folders: file name |-> parsed content
FolderBoth == [f \in {"f1", "f2"} |-> IF f = "f1" THEN FaGood ELSE FaBadLast]
Folders == {FolderBoth}

\* listdir gives the files of a folder in any order
Listings(folder) ==
    {o \in [1..Cardinality(DOMAIN folder) -> DOMAIN folder] :
        \A i, j \in DOMAIN o : i # j => o[i] # o[j]}

\* the options of a command line of fdog.addTaxa
TaxaOpts ==
    [core : BOOLEAN, noAnno : BOOLEAN, replace : BOOLEAN, delete : BOOLEAN,
     force : BOOLEAN]

(***************************************************************************)
(* The programs as a state machine.  One program runs at a time (the       *)
(* store has a single writer); proc.pc tells where it is.                  *)
(***************************************************************************)
EmptyStore == [k \in {} |-> NewDir]
Idle == [pc |-> "idle"]
NoRec == [phase |-> "none"]
NoName == [phase |-> "none"]

Init ==
    /\ genome = EmptyStore
    /\ blast = EmptyStore
    /\ weight \in SUBSET {SpecNameOf(NameXY, TaxId7, "1"), SpecNameOf(NameABCD, TaxId7, "1")}
    /\ proc = Idle
    /\ nrec = NoRec
    /\ tname = NoName

\* what makeblastdb may do when it is called (with --coreTaxa)
MkOutcomes(core) == IF core THEN {"ok", "fail", "faildir"} ELSE {"none"}

\* fdog.addTaxon run from the command line, from start to exit
TaxonRun ==
    /\ proc.pc = "idle"
    /\ \E a \in TaxonArgs, mk \in {"ok", "fail", "faildir", "none"}, fl \in BOOLEAN :
          /\ mk \in MkOutcomes(a.core)
          /\ LET r == AddTaxonMain(a, genome, blast, weight, mk, fl)
             IN  /\ genome' = r.genome
                 /\ blast' = r.blast
                 /\ weight' = r.weight
                 /\ proc' = [pc |-> "exited", prog |-> "addTaxon", a |-> a,
                             spec |-> TaxonSpecName(a), st |-> r.st, mat |-> r.mat,
                             log |-> r.log]
    /\ UNCHANGED <<nrec, tname>>

\* fdog.addTaxa up to its loop over the jobs: the mapping file is parsed,
\* the input folder scanned (with the deletions --force asks for), the
\* duplicates reported, and the program stopped when there are some and
\* --force is not given
TaxaStart ==
    /\ proc.pc = "idle"
    /\ \E m \in Mappings, fo \in Folders, o \in TaxaOpts :
        \E faFiles \in Listings(fo) :
          LET a == [mapping |-> m, folder |-> fo, faFiles |-> faFiles,
                    core |-> o.core, noAnno |-> o.noAnno, replace |-> o.replace,
                    delete |-> o.delete, force |-> o.force]
              nameDict == parseMapFile(m, EmptyStore)
              s == ScanFiles(faFiles, nameDict, DOMAIN genome, a,
                             [genome |-> genome, weight |-> weight, jobs |-> <<>>,
                              dupList |-> <<>>, log |-> <<>>, raised |-> FALSE])
              r == ReportDuplicates(s, a.force)
          IN  /\ genome' = s.genome
              /\ weight' = s.weight
              /\ proc' = [pc |-> r.pc, prog |-> "addTaxa", a |-> a, nameDict |-> nameDict,
                          jobs |-> s.jobs, ran |-> <<>>, dupList |-> s.dupList,
                          log |-> r.log]
    /\ UNCHANGED <<blast, nrec, tname>>

\* JobsAfter for a loop that a failed child would end
JobsAfterStop(jobs, st) == IF st = "done" THEN Tail(jobs) ELSE <<>>

\* "for job in tqdm(jobs)": subprocess.call returns the exit status of the
\* child (st), which is not read; the loop goes on with the next job
JobsAfter(jobs, st) == Tail(jobs)

\* runAddTaxon(job): fdog.addTaxon as a child process, run to its end.  The
\* command line is built without --force; an empty name, id or version
\* leaves -n, -i or -v without its argument and argparse stops the child.
TaxaJob ==
    /\ proc.pc = "jobs"
    /\ proc.jobs # <<>>
    /\ LET job == Head(proc.jobs)
           a == [fasta |-> proc.a.folder[job.f], name |-> job.n, taxid |-> job.i,
                 ver |-> job.v, core |-> proc.a.core, noAnno |-> proc.a.noAnno,
                 replace |-> proc.a.replace, delete |-> proc.a.delete, force |-> FALSE]
       IN  IF job.n = <<>> \/ job.i = <<>> \/ job.v = ""
           THEN /\ proc' = [proc EXCEPT !.jobs = JobsAfter(@, "usage"),
                                        !.ran = Append(@, [f |-> job.f, st |-> "usage",
                                                           mat |-> "none"])]
                /\ UNCHANGED <<genome, blast, weight>>
           ELSE \E mk \in MkOutcomes(a.core), fl \in BOOLEAN :
                  LET r == AddTaxonMain(a, genome, blast, weight, mk, fl)
                  IN  /\ genome' = r.genome
                      /\ blast' = r.blast
                      /\ weight' = r.weight
                      /\ proc' = [proc EXCEPT !.jobs = JobsAfter(@, r.st),
                                      !.ran = Append(@, [f |-> job.f, st |-> r.st,
                                                         mat |-> r.mat])]
    /\ UNCHANGED <<nrec, tname>>

\* the loop over the jobs has ended: the closing message of fdog.addTaxa
TaxaDone ==
    /\ proc.pc = "jobs"
    /\ proc.jobs = <<>>
    /\ proc' = [proc EXCEPT !.pc = "done", !.log = Append(@, "print:output")]
    /\ UNCHANGED <<genome, blast, weight, nrec, tname>>

\* the program has ended; the store stays as it left it
Exit ==
    /\ proc.pc \in {"exited", "done", "aborted", "crashed"}
    /\ proc' = Idle
    /\ UNCHANGED <<genome, blast, weight, nrec, tname>>

\* the batch orchestrator, run again and again on the store it leaves
Next == TaxaStart \/ TaxaJob \/ TaxaDone \/ Exit

Spec == Init /\ [][Next]_vars

\* the single-taxon pipeline, run again and again on the store it leaves
NextTaxon == TaxonRun \/ Exit

SpecTaxon == Init /\ [][NextTaxon]_vars

\* one run of the batch orchestrator from its start to its end, on empty
\* stores or on stores that hold a taxon of the mapping files, under the
\* scheduling of its loop: a job that is waiting is run, and the program
\* ends when none is left
StoreXY ==
    [k \in {SpecNameOf(NameXY, TaxId7, "1")} |->
        [hasFa |-> TRUE, fa |-> WriteLoop(FaGood, FALSE, FALSE, <<>>).out, checked |-> TRUE]]

InitLive ==
    /\ \/ genome = EmptyStore /\ weight = {}
       \/ genome = StoreXY /\ weight = {SpecNameOf(NameXY, TaxId7, "1")}
    /\ blast = EmptyStore
    /\ proc = Idle
    /\ nrec = NoRec
    /\ tname = NoName

NextLive == TaxaStart \/ TaxaJob \/ TaxaDone

SpecLive == InitLive /\ [][NextLive]_vars /\ WF_vars(TaxaJob) /\ WF_vars(TaxaDone)

(***************************************************************************)
(* One record through the write loop: the title line of a FASTA record     *)
(* and its residues are drawn from bounded sets, SeqIO gives the id, the   *)
(* loop body gives the block written.  --replace and --delete are never    *)
(* both set inside the loop (checkOptConflict has stopped the program).    *)
(***************************************************************************)
TitleChars == {"s", "|", "\\", " "}
SeqChars == {"M", "1", "*", NonAsciiLetter}

\* the title line ">seq1|domainA description text" without its ">"
TitleExample ==
    <<"s", "e", "q", "1", "|", "d", "o", "m", "a", "i", "n", "A", " ",
      "d", "e", "s", "c", "r", "i", "p", "t", "i", "o", "n", " ", "t", "e", "x", "t">>

\* the residues MKV1X*
SeqExample == <<"M", "K", "V", "1", "X", "*">>

InitNorm ==
    /\ genome = EmptyStore
    /\ blast = EmptyStore
    /\ weight = {}
    /\ proc = Idle
    /\ tname = NoName
    /\ \E title \in StringsUpTo(TitleChars, MaxHeaderLen) \cup {TitleExample},
          seq \in StringsUpTo(SeqChars, MaxSeqLen) \cup {SeqExample},
          replace \in BOOLEAN, delete \in BOOLEAN :
            /\ ~checkOptConflict(replace, delete)
            /\ nrec = [phase |-> "read", title |-> title, seq |-> seq,
                       replace |-> replace, delete |-> delete]

\* the record is parsed and goes through the loop body
NormStep ==
    /\ nrec.phase = "read"
    /\ nrec' = [nrec EXCEPT !.phase = "looped"] @@
               [id |-> FirstWord(nrec.title),
                r |-> NormRecord(FirstWord(nrec.title), nrec.seq,
                                 nrec.replace, nrec.delete)]
    /\ UNCHANGED <<genome, blast, weight, proc, tname>>

NextNorm == NormStep

SpecNorm == InitNorm /\ [][NextNorm]_vars

(***************************************************************************)
(* One taxonomy lookup through getTaxName: the scientific name the         *)
(* taxonomy database answers is drawn from a bounded set (or is NotFound). *)
(***************************************************************************)
NameChars == {"a", "B", "1", "-", " "}

InitName ==
    /\ genome = EmptyStore
    /\ blast = EmptyStore
    /\ weight = {}
    /\ proc = Idle
    /\ nrec = NoRec
    /\ \E ncbiName \in StringsUpTo(NameChars, MaxNameLen) \cup {NotFound},
          taxId \in {TaxId7, <<"4", "2">>} :
            tname = [phase |-> "asked", taxId |-> taxId, ncbiName |-> ncbiName]

Resolve ==
    /\ tname.phase = "asked"
    /\ tname' = [tname EXCEPT !.phase = "named"] @@
                [name |-> getTaxName(tname.taxId, tname.ncbiName)]
    /\ UNCHANGED <<genome, blast, weight, proc, nrec>>

NextName == Resolve

SpecName == InitName /\ [][NextName]_vars

(***************************************************************************)
(* Properties of the write loop body (specification SpecNorm).             *)
(***************************************************************************)
NoPipe(id) == \A i \in 1..Len(id) : id[i] # "|"

\* C8: every pipe character of a sequence id is rewritten to an underscore
\* in the stored id: no id written to the FASTA file holds a pipe, and the
\* title line "seq1|domainA description text" is stored as seq1_domainA.
C8_PipesRewritten ==
    (nrec.phase = "looped" /\ nrec.r.st = "ok") =>
        /\ NoPipe(nrec.r.id)
        /\ nrec.title = TitleExample =>
              nrec.r.id = <<"s", "e", "q", "1", "_", "d", "o", "m", "a", "i", "n", "A">>

\* the residues after a single trailing '*' is taken off
Stripped(seq) ==
    IF seq # <<>> /\ seq[Len(seq)] = "*" THEN [i \in 1..(Len(seq) - 1) |-> seq[i]] ELSE seq

AllAlpha(seq) == \A i \in 1..Len(seq) : IsAlpha(seq[i])

AllUpperLetters(s) == \A i \in 1..Len(s) : s[i] \in AsciiUpper

\* the first n characters of s are letters
LettersAtStart(s, n) == Len(s) >= n /\ \A i \in 1..n : s[i] \in AsciiLetters

\* C10 as stated: a resolvable name of at least two words gives exactly 5
\* uppercase letters; no resolvable name gives UNK followed by the id.
C10_FiveLetters ==
    tname.phase = "named" =>
        /\ (tname.ncbiName # NotFound /\ Len(Split(tname.ncbiName)) >= 2) =>
              Len(tname.name) = 5 /\ AllUpperLetters(tname.name)
        /\ tname.ncbiName = NotFound => tname.name = <<"U", "N", "K">> \o tname.taxId

\* C10 amended: when the name found, with the characters other than
\* letters, digits 1-9 and whitespace removed, has at least two words, the
\* result is the first (up to) 3 characters of word 0 followed by the first
\* (up to) 2 characters of word 1, letters uppercased; it is exactly 5
\* uppercase letters when word 0 starts with 3 letters and word 1 with 2;
\* no resolvable name gives UNK followed by the id.
C10_Acronym ==
    tname.phase = "named" =>
        LET words == Split(SelectSeq(tname.ncbiName, KeptInName))
            n0 == IF Len(words[1]) < 3 THEN Len(words[1]) ELSE 3
            n1 == IF Len(words[2]) < 2 THEN Len(words[2]) ELSE 2
        IN  /\ (tname.ncbiName # NotFound /\ Len(words) >= 2) =>
                  /\ Len(tname.name) = n0 + n1
                  /\ \A i \in 1..n0 : tname.name[i] = UpperChar(words[1][i])
                  /\ \A i \in 1..n1 : tname.name[n0 + i] = UpperChar(words[2][i])
                  /\ (LettersAtStart(words[1], 3) /\ LettersAtStart(words[2], 2)) =>
                        Len(tname.name) = 5 /\ AllUpperLetters(tname.name)
            /\ tname.ncbiName = NotFound => tname.name = <<"U", "N", "K">> \o tname.taxId

\* C10 witness: a name of two words of letters has been resolved to 5
\* uppercase letters
C10_Witness ==
    /\ tname.phase = "named"
    /\ tname.ncbiName # NotFound
    /\ Len(Split(tname.ncbiName)) >= 2
    /\ Len(tname.name) = 5
    /\ AllUpperLetters(tname.name)
    /\ \E i \in 1..Len(tname.ncbiName) : tname.ncbiName[i] \in AsciiLower

(***************************************************************************)
(* Properties of the batch orchestrator (specification Spec).              *)
(***************************************************************************)
\* a step that starts fdog.addTaxa
TaxaStarts == proc.pc = "idle" /\ proc'.pc # "idle" /\ proc'.prog = "addTaxa"

StoresUnchanged == genome' = genome /\ blast' = blast /\ weight' = weight

\* the mapped files found in the input folder whose taxon name is in store G
Colliding(p, G) ==
    {f \in DOMAIN p.nameDict \cap DOMAIN p.a.folder : p.nameDict[f] \in DOMAIN G}

\* the pairs (file, taxon name) printed as duplicates
Reported(p) == {p.dupList[i] : i \in 1..Len(p.dupList)}

\* two mapped files of the input folder have the same taxon name
SameKeyPairs(p) ==
    {fg \in (DOMAIN p.nameDict \cap DOMAIN p.a.folder)
            \X (DOMAIN p.nameDict \cap DOMAIN p.a.folder) :
        fg[1] # fg[2] /\ p.nameDict[fg[1]] = p.nameDict[fg[2]]}

\* C1: without --force, when the taxon name of at least one mapped file of
\* the input folder is in genome_dir, fdog.addTaxa stops before fdog.addTaxon
\* is run for any entry, every such entry is printed with its taxon name,
\* and no directory of the stores is deleted or changed, then or afterwards.
C1_AbortBeforeAnyRun ==
    [][ /\ (TaxaStarts /\ ~proc'.a.force /\ Colliding(proc', genome) # {}) =>
              /\ proc'.pc = "aborted"
              /\ proc'.ran = <<>>
              /\ Reported(proc') = {<<f, proc'.nameDict[f]>> : f \in Colliding(proc', genome)}
              /\ \E i \in 1..Len(proc'.log) : proc'.log[i] = "print:dupList"
              /\ StoresUnchanged
        /\ proc.pc = "aborted" => (proc'.pc = "idle" /\ StoresUnchanged)
      ]_vars

\* C1 witness: the batch has stopped on a duplicate while an entry that is
\* no duplicate was waiting as a job, and no job has run
C1_Witness ==
    /\ proc.pc = "aborted"
    /\ proc.dupList # <<>>
    /\ proc.jobs # <<>>
    /\ proc.ran = <<>>

\* the entries of the jobs already run
RanFiles(p) == {p.ran[i].f : i \in 1..Len(p.ran)}

\* C2 as stated: with --force and two mapped files of the same taxon name
\* (no --replace/--delete conflict, the later file clean under the policy),
\* both entries are run one after the other and the taxon directory ends
\* with the FASTA of the entry processed later.
C2_LaterEntryWins ==
    (/\ proc.pc \in {"done", "crashed"}
     /\ proc.a.force
     /\ ~checkOptConflict(proc.a.replace, proc.a.delete)) =>
        \A i, j \in 1..Len(proc.a.faFiles) :
            LET f == proc.a.faFiles[i]
                g == proc.a.faFiles[j]
                w == WriteLoop(proc.a.folder[g], proc.a.replace, proc.a.delete, <<>>)
            IN  (i < j /\ <<f, g>> \in SameKeyPairs(proc) /\ w.st = "ok") =>
                    /\ proc.pc = "done"
                    /\ {f, g} \subseteq RanFiles(proc)
                    /\ proc.nameDict[g] \in DOMAIN genome
                    /\ genome[proc.nameDict[g]].hasFa
                    /\ genome[proc.nameDict[g]].fa = w.out

\* C3 as stated: without --force, two mapped files of the same taxon name
\* make the batch stop with both file names printed and nothing run.
C3_SameKeyRowsAbort ==
    (proc.pc \in {"jobs", "done", "aborted", "crashed"} /\ ~proc.a.force) =>
        \A fg \in SameKeyPairs(proc) :
            /\ proc.pc = "aborted"
            /\ proc.ran = <<>>
            /\ <<fg[1], proc.nameDict[fg[1]]>> \in Reported(proc)
            /\ <<fg[2], proc.nameDict[fg[2]]>> \in Reported(proc)

\* C3 amended: without --force, two mapped files of the same taxon name
\* that is already in genome_dir make the batch stop with both file names
\* printed; nothing is run and the stores are left as they were.
C3_StoredKeyRowsAbort ==
    [][ (TaxaStarts /\ ~proc'.a.force) =>
            \A fg \in SameKeyPairs(proc') :
                proc'.nameDict[fg[1]] \in DOMAIN genome =>
                    /\ proc'.pc = "aborted"
                    /\ proc'.ran = <<>>
                    /\ <<fg[1], proc'.nameDict[fg[1]]>> \in Reported(proc')
                    /\ <<fg[2], proc'.nameDict[fg[2]]>> \in Reported(proc')
                    /\ StoresUnchanged
      ]_vars

\* C3 witness: the batch has stopped with two files of one taxon name
\* printed as duplicates, nothing run
C3_Witness ==
    /\ proc.pc = "aborted"
    /\ proc.ran = <<>>
    /\ \E i, j \in 1..Len(proc.dupList) :
          i # j /\ proc.dupList[i][2] = proc.dupList[j][2]

\* C7 as stated: while a program given both --replace and --delete runs, no
\* directory of the genome, blast or weight store is created, deleted or
\* rewritten.
C7_ConflictBeforeMutation ==
    [][ (proc'.pc # "idle" /\ proc'.a.replace /\ proc'.a.delete) => StoresUnchanged ]_vars

(***************************************************************************)
(* Properties of the single-taxon pipeline (specification SpecTaxon).      *)
(***************************************************************************)
\* a step that is a whole run of fdog.addTaxon
TaxonRuns == proc.pc = "idle" /\ proc'.pc = "exited"

\* C4 as stated: when a run without --replace and --delete has stopped on a
\* special character, the taxon's FASTA file holds no record.
C4_NoPartialFasta ==
    (proc.pc = "exited" /\ ~proc.a.replace /\ ~proc.a.delete /\ proc.st = "special") =>
        (proc.spec \in DOMAIN genome =>
            (~genome[proc.spec].hasFa \/ genome[proc.spec].fa = <<>>))

\* C5 as stated: a taxon directory with the .checked file holds the complete
\* normalised records of the run that wrote .checked: whenever .checked is
\* there after a step, either this step was a run that wrote the whole file
\* and then .checked, or .checked was there before and the FASTA file is
\* what it was.
C5_MarkerMeansComplete ==
    [][ \A k \in DOMAIN genome' :
          genome'[k].checked =>
            \/ /\ k \in DOMAIN genome
               /\ genome[k].checked
               /\ genome'[k].fa = genome[k].fa
            \/ /\ TaxonRuns
               /\ proc'.spec = k
               /\ proc'.mat = "written"
               /\ LET w == WriteLoop(proc'.a.fasta, proc'.a.replace, proc'.a.delete, <<>>)
                  IN  w.st = "ok" /\ genome'[k].hasFa /\ genome'[k].fa = w.out
      ]_vars

\* C6: a run without --force on a taxon whose FASTA file is there and not
\* empty leaves the taxon directory (FASTA file and .checked) as it was, and
\* when its options do not conflict and its input parses, it reports the
\* file as already there and runs to its end.
C6_IdempotentSkip ==
    [][ (/\ TaxonRuns
         /\ ~proc'.a.force
         /\ proc'.spec \in DOMAIN genome
         /\ genome[proc'.spec].hasFa
         /\ genome[proc'.spec].fa # <<>>) =>
            /\ genome' = genome
            /\ (~checkOptConflict(proc'.a.replace, proc'.a.delete)
                /\ ~DuplicateKey(proc'.a.fasta)) =>
                  /\ proc'.mat = "exists"
                  /\ proc'.st = "done"
                  /\ \E i \in 1..Len(proc'.log) : proc'.log[i] = "print:exists"
      ]_vars

\* C6 witness: a run without --force has found the taxon materialised from
\* this very input (FASTA file and .checked in place) and has skipped it
C6_Witness ==
    /\ proc.pc = "exited"
    /\ ~proc.a.force
    /\ proc.mat = "exists"
    /\ proc.st = "done"
    /\ genome[proc.spec].checked
    /\ genome[proc.spec].fa # <<>>
    /\ genome[proc.spec].fa =
          WriteLoop(proc.a.fasta, proc.a.replace, proc.a.delete, <<>>).out

(***************************************************************************)
(* C11: deletions and their announcement.                                  *)
(***************************************************************************)
Deletions == {"rmtree:genome", "rmtree:weight", "rmtree:blast"}
Announcements == {"print:dupList", "print:will_delete"}

\* C11 as stated: in the sequence of messages and file operations of a
\* program, every deletion of a genome, blast or weight directory comes
\* after a message that announces it.
C11_DeleteAfterLog ==
    proc.pc # "idle" =>
        \A i \in 1..Len(proc.log) :
            proc.log[i] \in Deletions =>
                \E j \in 1..(i - 1) : proc.log[j] \in Announcements

(***************************************************************************)
(* C12: the loop over the jobs.                                            *)
(***************************************************************************)
\* the mapped files of the input folder, in the order of the listing
Entries(p) == SelectSeq(p.a.faFiles, LAMBDA f : f \in DOMAIN p.nameDict)

RanSeq(p) == [i \in 1..Len(p.ran) |-> p.ran[i].f]
JobSeq(p) == [i \in 1..Len(p.jobs) |-> p.jobs[i].f]

\* C12: once the batch has passed the collision check, the entries already
\* run followed by those waiting are the mapped files of the input folder,
\* each once and in order; a step of the loop runs the next entry alone and
\* stays in the loop however the entry ended; and the batch reaches its end
\* with every entry run.
C12_EveryEntryRun ==
    /\ [](proc.pc \in {"jobs", "done"} => RanSeq(proc) \o JobSeq(proc) = Entries(proc))
    /\ [][(proc.pc = "jobs" /\ proc.jobs # <<>>) =>
            /\ proc'.pc = "jobs"
            /\ RanSeq(proc') = Append(RanSeq(proc), Head(proc.jobs).f)
            /\ JobSeq(proc') = Tail(JobSeq(proc))]_vars
    /\ (proc.pc = "jobs") ~> (proc.pc = "done" /\ RanSeq(proc) = Entries(proc))

\* C12 witness: the batch has ended after an entry that failed and a later
\* entry that was run all the same
C12_Witness ==
    /\ proc.pc = "done"
    /\ Len(proc.ran) = 2
    /\ proc.ran[1].st \in {"special", "conflict", "usage", "dupid", "index", "space"}
    /\ proc.ran[2].st = "done"

(***************************************************************************)
(* C13: the batch orchestrator with --force.                               *)
(***************************************************************************)
\* C13 as stated: a batch run with --force deletes the genome directory
\* (and, without --noAnno, the weight directory) of every mapped file of the
\* input folder whose taxon name is in the genome store, and goes on to its
\* jobs, which hold every mapped file of the folder, whatever the weight
\* store holds.
C13_ForceProceeds ==
    [][ (TaxaStarts /\ proc'.a.force) =>
            /\ proc'.pc = "jobs"
            /\ JobSeq(proc') = Entries(proc')
            /\ \A f \in Colliding(proc', genome) :
                  /\ proc'.nameDict[f] \notin DOMAIN genome'
                  /\ ~proc'.a.noAnno => proc'.nameDict[f] \notin weight'
      ]_vars

(***************************************************************************)
(* C14, C15: the blast stage of the single-taxon pipeline.                 *)
(***************************************************************************)
InLog(p, e) == \E i \in 1..Len(p.log) : p.log[i] = e

\* makeblastdb was called and has left no .phr file
BlastFailed == InLog(proc', "call:makeblastdb")
               /\ ~(proc'.spec \in DOMAIN blast' /\ blast'[proc'.spec].phr)

\* makeblastdb was called and has left its .phr file
BlastBuilt == InLog(proc', "call:makeblastdb")
              /\ proc'.spec \in DOMAIN blast' /\ blast'[proc'.spec].phr

\* C14 as stated: a run whose makeblastdb failed prints the problem, keeps
\* the FASTA file and .checked it has written, calls fas.doAnno unless
\* --noAnno and runs to its end; a run stopped in the write loop calls
\* neither makeblastdb nor fas.doAnno.
C14_BlastFailureReported ==
    [][ TaxonRuns =>
          /\ BlastFailed =>
                /\ InLog(proc', "print:blast_problem")
                /\ genome'[proc'.spec].hasFa
                /\ proc'.mat = "written" => genome'[proc'.spec].checked
                /\ ~proc'.a.noAnno => InLog(proc', "call:doAnno")
                /\ proc'.st = "done"
          /\ proc'.st \in {"space", "index", "special"} =>
                /\ ~InLog(proc', "call:makeblastdb")
                /\ ~InLog(proc', "call:doAnno")
      ]_vars

\* C15: makeblastdb is called only with --coreTaxa; with the .phr file there
\* and without --force it is not called and blast_dir is left as it was;
\* when it has built the index the symbolic link is there; and the link is
\* made only when the directory the run works on had none.
C15_BlastOnlyWhenNeeded ==
    [][ TaxonRuns =>
          /\ InLog(proc', "call:makeblastdb") => proc'.a.core
          /\ (/\ ~proc'.a.force
              /\ proc'.spec \in DOMAIN blast
              /\ blast[proc'.spec].phr) =>
                 /\ ~InLog(proc', "call:makeblastdb")
                 /\ ~InLog(proc', "symlink")
                 /\ blast' = blast
          /\ BlastBuilt => blast'[proc'.spec].link
          /\ InLog(proc', "symlink") =>
                 \/ proc'.a.force
                 \/ proc'.spec \notin DOMAIN blast
                 \/ ~blast[proc'.spec].link
      ]_vars

\* C15 witness: a run without --force has built the index in a directory
\* that held the link already, and has made no link
C15_Witness ==
    /\ proc.pc = "exited"
    /\ proc.a.core /\ ~proc.a.force
    /\ InLog(proc, "call:makeblastdb")
    /\ ~InLog(proc, "symlink")
    /\ proc.spec \in DOMAIN blast
    /\ blast[proc.spec].phr /\ blast[proc.spec].link

(***************************************************************************)
(* C16: the ids of a written FASTA file.                                   *)
(***************************************************************************)
\* C16 as stated: in every FASTA file of the genome store no two records
\* have the same id.
C16_DistinctIds ==
    \A k \in DOMAIN genome :
        \A i, j \in 1..Len(genome[k].fa) :
            i # j => genome[k].fa[i].id # genome[k].fa[j].id

(***************************************************************************)
(* C17: the taxon name of the batch and of the pipeline.                   *)
(***************************************************************************)
\* the directory name fdog.addTaxon builds for the job of the mapped file f
PipelineKey(p, f) ==
    TaxonSpecName([name |-> p.nameDict[f][1], taxid |-> p.nameDict[f][2],
                   ver |-> p.nameDict[f][3]])

\* C17 as stated: for every mapped file of the input folder the taxon name
\* the batch looks up in genome_dir is the directory name the pipeline
\* builds for it, and when that directory is in the genome store as the
\* batch starts, the file is among the duplicates it lists.
C17_SameKey ==
    [][ (TaxaStarts /\ proc'.pc # "crashed") =>
            \A f \in DOMAIN proc'.nameDict \cap DOMAIN proc'.a.folder :
                /\ proc'.nameDict[f] = PipelineKey(proc', f)
                /\ PipelineKey(proc', f) \in DOMAIN genome =>
                      <<f, proc'.nameDict[f]>> \in Reported(proc')
      ]_vars

(***************************************************************************)
(* C18: what the skip of the write loop accepts.                           *)
(***************************************************************************)
\* C18 as stated: a run reports the FASTA file as already there only when
\* a run before it has written the file to its end (.checked is there).
C18_SkipOnlyComplete ==
    [][ (TaxonRuns /\ proc'.mat = "exists") => genome[proc'.spec].checked ]_vars

=============================================================================
